---- MODULE Spec2Model ----
(***************************************************************************)
(* Model of the kyna knowledge base: the ingestion coordinator             *)
(* (kyna/core/document_processor.py, kyna/api/endpoints/documents.py)      *)
(* working against the metadata store, the vector index and the data       *)
(* directory, and the conversational session cache                         *)
(* (kyna/core/rag_chain.py).                                               *)
(*                                                                         *)
(* Ingestion requests are executed by worker processes that interleave at  *)
(* the granularity of calls to the metadata store, the vector index and    *)
(* the file system (Spec, IngestSpec).  The session cache is process-local: *)
(* SessionSpec runs its requests one at a time, as the API's event loop    *)
(* does; ThreadSpec interleaves them at the accesses to the dictionary.    *)
(* ChunkSpec applies the chunking engine to loaded documents.              *)
(***************************************************************************)
EXTENDS Integers, Sequences, FiniteSets, TLC

VARIABLES
    docs,        \* metadata store: the rows of table "documents"
    index,       \* vector index: the points of the collection
    upserted,    \* history: every point the index has accepted so far
    collection,  \* TRUE iff the collection exists in the vector index
    files,       \* names of the files present in the data directory
    pc,          \* per worker: position in the handler it executes
    loc,         \* per worker: the handler's local variables
    ret,         \* per worker: outcome of the handler it executed last
    started,     \* number of handlers begun so far
    sessions,    \* SessionMemoryManager.sessions
    now,         \* wall clock, time.time()
    spc,         \* position of the stateful request in flight
    sloc,        \* local variables of the stateful request in flight
    sret,        \* outcome of the last session-cache operation
    tpc,         \* per thread: position in the session-cache request it executes
    tloc,        \* per thread: the request's local variables
    tret,        \* per thread: outcome of the request it executed last
    document,    \* the loaded unit handed to _chunk_document: blocks and separators
    cpc,         \* position in _chunk_document
    is_faq_document,  \* the classifier's verdict
    chunks       \* the page_content of the chunks produced

ingestVars  == <<docs, index, upserted, collection, files, pc, loc, ret, started>>
threadVars  == <<tpc, tloc, tret>>
chunkVars   == <<document, cpc, is_faq_document, chunks>>
sessionVars == <<sessions, now, spc, sloc, sret, tpc, tloc, tret>>
vars        == <<docs, index, upserted, collection, files, pc, loc, ret, started,
                 sessions, now, spc, sloc, sret, tpc, tloc, tret,
                 document, cpc, is_faq_document, chunks>>

----------------------------------------------------------------------------
(* Bounds of the model *)

MaxKey   == 3    \* uuid4 keys that can be in use at one time
MaxDocId == 2    \* primary keys the metadata store can hand out
MaxFile  == 1    \* largest conflict counter of a stored upload
MaxOps   == 3    \* handlers begun in one behaviour
MaxTime  == 3    \* last clock value
MaxTurns == 2    \* exchanges one session can accumulate
MaxRequests == 3 \* requests the threads begin in one behaviour
MaxBlocks == 4   \* text blocks of one loaded document

\* configuration (config.memory)
ttl_seconds        == 2
max_history_length == 1

\* configuration (config.ingestion)
chunk_size == 5

\* configuration (config.embedding.provider), as set when a request is served
EmbeddingProviders == {"fastembed", "openai"}

\* length of the vectors of the provider's default model: text-embedding-3-small
\* gives 1536 numbers, BAAI/bge-small-en-v1.5 gives 384
Dimension(provider) == IF provider = "openai" THEN 1536 ELSE 384

\* VectorParams(size=384): the vector length every collection is created with
VectorSize == 384

Procs        == {"w1", "w2"}
FileContents == {"fa"}
UrlContents  == {"ua"}
Contents     == FileContents \cup UrlContents
\* uploads whose bytes are not UTF-8 text: open(..., encoding='utf-8').read() raises
UnreadableContents == {"fx"}
UploadContents     == FileContents \cup UnreadableContents
SessionIds   == {"s1", "s2"}
Questions    == {"q1", "q2"}

Range(s) == {s[i] : i \in 1..Len(s)}

----------------------------------------------------------------------------
(* Metadata store *)

NoDoc == [id |-> 0, filename |-> "", source_type |-> "", source_url |-> "",
          document_type |-> "", content_hash |-> "", vector_ids |-> <<>>]

NewDocumentModel(id, filename, source_type, source_url, document_type, content_hash) ==
    [id |-> id, filename |-> filename, source_type |-> source_type,
     source_url |-> source_url, document_type |-> document_type,
     content_hash |-> content_hash, vector_ids |-> <<>>]

\* variant: the lookup by fingerprint finds nothing
QueryByHashMiss(content_hash) == NoDoc

QueryByHash(content_hash) ==
    IF \E d \in docs : d.content_hash = content_hash
    THEN CHOOSE d \in docs : d.content_hash = content_hash
    ELSE NoDoc

\* variant: the lookup takes the first row whatever its primary key
QueryByIdUnfiltered(doc_id) == IF docs # {} THEN CHOOSE d \in docs : TRUE ELSE NoDoc

QueryById(doc_id) ==
    IF \E d \in docs : d.id = doc_id
    THEN CHOOSE d \in docs : d.id = doc_id
    ELSE NoDoc

\* variant: content_hash carries no unique constraint
UniqueViolationNever(content_hash) == FALSE

\* variant: the unique constraint only covers rows that already own vectors
UniqueViolationComplete(content_hash) ==
    \E d \in docs : d.content_hash = content_hash /\ d.vector_ids # <<>>

UniqueViolation(content_hash) == \E d \in docs : d.content_hash = content_hash

\* INTEGER PRIMARY KEY of a new row: one more than the largest key in use
NextId == IF docs = {} THEN 1
          ELSE (CHOOSE i \in {d.id : d \in docs} : \A d \in docs : d.id <= i) + 1

\* the attributes of a row that the handlers keep using after they read it
View(d) == [id |-> d.id, source_type |-> d.source_type, vector_ids |-> d.vector_ids]

----------------------------------------------------------------------------
(* Content loading, fingerprinting and chunking *)

SourceType(content) == IF content \in UploadContents THEN "file" ELSE "url"

\* md5 of the file bytes, resp. of the URL string
GetHash(content) == "md5:" \o content

\* file_path after the name-conflict loop has tried counters 0..n
FilePath(n) == IF n = 0 THEN "doc.md" ELSE "doc_" \o ToString(n) \o ".md"

ExtractFilenameFromUrl(url) == url \o ".html"

DocumentType(content) == IF content \in UploadContents THEN ".md" ELSE "html"

\* variant: every source loads
LoadOutcomesAllLoaded(content) == {"loaded"}

\* what loading can yield: a URL that cannot be fetched or cleans to nothing
\* yields no document, a readable file always yields its content, the read of
\* an unreadable file raises
LoadOutcomes(content) ==
    CASE content \in UrlContents        -> {"loaded", "empty"}
      [] content \in UnreadableContents -> {"failed"}
      [] OTHER                          -> {"loaded"}

\* number of chunks _chunk_document produces for the content
NumChunks(content) == IF content \in FileContents THEN 2 ELSE 1

----------------------------------------------------------------------------
(* Vector index *)

Point(key, doc_id, i) == [id |-> key, document_id |-> doc_id, chunk_index |-> i]

\* the keys some point, row or handler holds
KeysInUse ==
    {pt.id : pt \in index}
    \cup UNION {Range(d.vector_ids) : d \in docs}
    \cup UNION {Range(loc[p].vector_ids) \cup Range(loc[p].doc_model.vector_ids)
                  \cup UNION {Range(d.vector_ids) : d \in loc[p].all_docs} : p \in Procs}

UnusedKeys == (1..MaxKey) \ KeysInUse

\* the k-th smallest element of the set S of numbers
RECURSIVE Nth(_, _)
Nth(S, k) ==
    LET least == CHOOSE x \in S : \A y \in S : x <= y
    IN IF k = 1 THEN least ELSE Nth(S \ {least}, k - 1)

\* variant: one key is generated and used for every chunk
FreshKeysRepeated(n) == [i \in 1..n |-> Nth(UnusedKeys, 1)]

\* str(uuid.uuid4()) for each of n chunks, in chunk order: n keys that are
\* new, that is, held by no point, row or handler
FreshKeys(n) == [i \in 1..n |-> Nth(UnusedKeys, i)]

\* variant: the payload carries the position of the chunk as its document_id
UpsertPointsByPosition(vector_ids, doc_id) ==
    {Point(vector_ids[i], i - 1, i - 1) : i \in 1..Len(vector_ids)}

\* the points _store_vectors builds: one per chunk, tagged with the record's id
UpsertPoints(vector_ids, doc_id) ==
    {Point(vector_ids[i], doc_id, i - 1) : i \in 1..Len(vector_ids)}

\* variant: the collection is created anew whether it exists or not
EnsureCollectionRecreates(c) == [exists |-> TRUE, points |-> {}]

\* _ensure_collection_exists on the collection c (whether it exists, and its
\* points): create_collection, when the name is not among the collections,
\* makes an empty collection
EnsureCollectionExists(c) ==
    IF ~c.exists THEN [exists |-> TRUE, points |-> {}] ELSE c

\* the collection of the configured name, as the index holds it
Collection == [exists |-> collection, points |-> index]

\* variant: only the first key of the selector is deleted
PointsAfterDeleteFirst(vector_ids) ==
    {pt \in index : vector_ids = <<>> \/ pt.id # vector_ids[1]}

PointsAfterDelete(vector_ids) == {pt \in index : pt.id \notin Range(vector_ids)}

\* variant: the list is not tested
TruthyAlways(list) == TRUE

\* variant: the test of the list is inverted
TruthyInverted(list) == list = <<>>

\* truth value of a Python list
Truthy(list) == list # <<>>

----------------------------------------------------------------------------
(* Worker state *)

NoLoc == [op |-> "", content |-> "", file_path |-> "", existing_doc |-> View(NoDoc),
          doc_model |-> View(NoDoc), documents |-> "",
          vector_ids |-> <<>>, all_docs |-> {}, error |-> ""]

NoRet == [kind |-> "none", id |-> 0, ok |-> FALSE, error |-> ""]
RetId(i)    == [kind |-> "id",    id |-> i, ok |-> TRUE,  error |-> ""]
RetBool(b)  == [kind |-> "bool",  id |-> 0, ok |-> b,     error |-> ""]
RetRaise(e) == [kind |-> "raise", id |-> 0, ok |-> FALSE, error |-> e]

Idle(p) == pc[p] \in {"idle", "done"}

\* worker p takes up a new request
Begin(p) ==
    /\ Idle(p)
    /\ started < MaxOps
    /\ started' = started + 1

\* the handler of worker p goes on at position next with locals l
Goto(p, l, next) ==
    /\ pc'  = [pc EXCEPT ![p] = next]
    /\ loc' = [loc EXCEPT ![p] = l]
    /\ ret' = [ret EXCEPT ![p] = NoRet]

\* the handler of worker p returns r
Return(p, l, r) ==
    /\ pc'  = [pc EXCEPT ![p] = "done"]
    /\ loc' = [loc EXCEPT ![p] = l]
    /\ ret' = [ret EXCEPT ![p] = r]

\* variant: every handler hands the error to the client at once
RaiseAtOnce(p, l, e) == Return(p, l, RetRaise(e))

\* variant: the error is swallowed and the id of the record is returned
RaiseReturnsId(p, l, e) == Return(p, l, RetId(l.doc_model.id))

\* process_document raises e: an upload first cleans up the saved file, the
\* other handlers hand the error to the client at once
Raise(p, l, e) ==
    IF l.op = "upload"
    THEN Goto(p, [l EXCEPT !.error = e], "cleanup")
    ELSE Return(p, l, RetRaise(e))

----------------------------------------------------------------------------
(* Ingestion: upload_document, add_url_document, _process_document *)

\* first free conflict counter for the uploaded file name
FirstFreeCounter ==
    CHOOSE n \in 0..(MaxFile + 1) :
        /\ n <= MaxFile => FilePath(n) \notin files
        /\ \A m \in 0..(n - 1) : FilePath(m) \in files

\* upload_document up to the call of process_document: the upload is saved
\* under the first free name of the data directory
UploadSave(p, content) ==
    /\ Begin(p)
    /\ FirstFreeCounter <= MaxFile
    /\ LET file_path == FilePath(FirstFreeCounter)
       IN /\ files' = files \cup {file_path}
          /\ Goto(p, [NoLoc EXCEPT !.op = "upload", !.content = content,
                                   !.file_path = file_path], "process")
    /\ UNCHANGED <<docs, index, collection, upserted, sessionVars, chunkVars>>

\* variant: the loaded content is tested before the hash is looked up
LoadAndLookupContentFirst(p, l0) ==
    LET content_hash == GetHash(l0.content)
        existing_doc == QueryByHash(content_hash)
    IN \E documents \in LoadOutcomes(l0.content), embedded \in BOOLEAN :
          LET l == [l0 EXCEPT !.documents = documents]
          IN IF documents = "failed"
             THEN Raise(p, l, "UnicodeDecodeError")
             ELSE IF documents = "empty"
             THEN Raise(p, l, "ValueError")
             ELSE IF existing_doc # NoDoc
             THEN Return(p, [l EXCEPT !.existing_doc = View(existing_doc)],
                         RetId(existing_doc.id))
             ELSE IF ~embedded
             THEN Raise(p, l, "EmbeddingError")
             ELSE Goto(p, l, "add_record")

\* _process_document from its entry to the embedding of the chunks: hash and
\* load the source (documents), look the hash up, chunk and embed
LoadAndLookup(p, l0) ==
    LET content_hash == GetHash(l0.content)
        existing_doc == QueryByHash(content_hash)
    IN \E documents \in LoadOutcomes(l0.content), embedded \in BOOLEAN :
          LET l == [l0 EXCEPT !.documents = documents]
          IN IF documents = "failed"
             THEN Raise(p, l, "UnicodeDecodeError")
             ELSE IF existing_doc # NoDoc
             THEN Return(p, [l EXCEPT !.existing_doc = View(existing_doc)],
                         RetId(existing_doc.id))
             ELSE IF documents = "empty"
             THEN Raise(p, l, "ValueError")
             ELSE IF ~embedded
             THEN Raise(p, l, "EmbeddingError")
             ELSE Goto(p, l, "add_record")

\* process_document of a saved upload
ProcessUpload(p) ==
    /\ pc[p] = "process"
    /\ LoadAndLookup(p, loc[p])
    /\ UNCHANGED <<docs, index, collection, files, started, upserted, sessionVars, chunkVars>>

\* add_url_document: process_url
ProcessUrl(p, content) ==
    /\ Begin(p)
    /\ LoadAndLookup(p, [NoLoc EXCEPT !.op = "add_url", !.content = content])
    /\ UNCHANGED <<docs, index, collection, files, upserted, sessionVars, chunkVars>>

\* db.add(doc_model); db.commit(); db.refresh(doc_model)
AddRecord(p) ==
    /\ pc[p] = "add_record"
    /\ LET l == loc[p]
           content_hash == GetHash(l.content)
       IN IF UniqueViolation(content_hash)
          THEN /\ Raise(p, l, "IntegrityError")
               /\ UNCHANGED docs
          ELSE /\ NextId <= MaxDocId
               /\ LET doc_model == NewDocumentModel(NextId,
                                      IF l.op = "upload" THEN l.file_path
                                                         ELSE ExtractFilenameFromUrl(l.content),
                                      SourceType(l.content),
                                      IF l.op = "upload" THEN "/files/placeholder" ELSE l.content,
                                      DocumentType(l.content), content_hash)
                  IN /\ docs' = docs \cup {doc_model}
                     /\ Goto(p, [l EXCEPT !.doc_model = View(doc_model)],
                             IF l.op = "upload" THEN "set_source_url" ELSE "store_vectors")
    /\ UNCHANGED <<index, collection, files, started, upserted, sessionVars, chunkVars>>

\* the rows after UPDATE documents SET source_url WHERE id = doc_id
UpdateSourceUrl(doc_id, source_url) ==
    {IF d.id = doc_id THEN [d EXCEPT !.source_url = source_url] ELSE d : d \in docs}

\* variant: the update has no WHERE clause
UpdateVectorIdsEveryRow(doc_id, vector_ids) ==
    {[d EXCEPT !.vector_ids = vector_ids] : d \in docs}

\* the rows after UPDATE documents SET vector_ids WHERE id = doc_id
UpdateVectorIds(doc_id, vector_ids) ==
    {IF d.id = doc_id THEN [d EXCEPT !.vector_ids = vector_ids] ELSE d : d \in docs}

\* doc_model.source_url = f"/files/{doc_model.id}"; db.commit()
SetSourceUrl(p) ==
    /\ pc[p] = "set_source_url"
    /\ LET l == loc[p]
           doc_id == l.doc_model.id
       IN IF QueryById(doc_id) = NoDoc
          THEN /\ Raise(p, l, "StaleDataError")
               /\ UNCHANGED docs
          ELSE /\ docs' = UpdateSourceUrl(doc_id, "/files/" \o ToString(doc_id))
               /\ Goto(p, l, "store_vectors")
    /\ UNCHANGED <<index, collection, files, started, upserted, sessionVars, chunkVars>>

\* _store_vectors(chunks, embeddings, str(doc_model.id)): reading doc_model.id
\* reloads the row after the commit of the source_url; the collection is
\* ensured and the points are upserted.  The index rejects points whose
\* vectors do not have the length of the collection.  The embeddings are
\* those of the configured provider.
StoreVectorsOf(p, provider) ==
    /\ pc[p] = "store_vectors"
    /\ LET l == loc[p]
           doc_id == l.doc_model.id
           n == NumChunks(l.content)
           vector_ids == FreshKeys(n)
       IN \E available \in BOOLEAN :
            IF l.op = "upload" /\ QueryById(doc_id) = NoDoc
            THEN /\ Raise(p, l, "ObjectDeletedError")
                 /\ UNCHANGED <<index, collection, upserted>>
            ELSE IF ~available
            THEN /\ Raise(p, l, "IndexWriteError")
                 /\ UNCHANGED <<index, collection, upserted>>
            ELSE IF Dimension(provider) # VectorSize
            THEN /\ Raise(p, l, "IndexWriteError")
                 /\ collection' = EnsureCollectionExists(Collection).exists
                 /\ index' = EnsureCollectionExists(Collection).points
                 /\ UNCHANGED upserted
            ELSE /\ Cardinality(UnusedKeys) >= n
                 /\ collection' = EnsureCollectionExists(Collection).exists
                 /\ index' = EnsureCollectionExists(Collection).points
                                \cup UpsertPoints(vector_ids, doc_id)
                 /\ upserted' = upserted \cup UpsertPoints(vector_ids, doc_id)
                 /\ Goto(p, [l EXCEPT !.vector_ids = vector_ids], "set_vector_ids")
    /\ UNCHANGED <<docs, files, started, sessionVars, chunkVars>>

\* vector_ids = self._store_vectors(chunks, embeddings, str(doc_model.id))
StoreVectors(p) == \E provider \in EmbeddingProviders : StoreVectorsOf(p, provider)

\* doc_model.vector_ids = vector_ids; db.commit()
SetVectorIds(p) ==
    /\ pc[p] = "set_vector_ids"
    /\ LET l == loc[p]
           doc_id == l.doc_model.id
       IN IF QueryById(doc_id) = NoDoc
          THEN /\ Raise(p, l, "StaleDataError")
               /\ UNCHANGED docs
          ELSE /\ docs' = UpdateVectorIds(doc_id, l.vector_ids)
               /\ Goto(p, l, "return_id")
    /\ UNCHANGED <<index, collection, files, started, upserted, sessionVars, chunkVars>>

\* return str(doc_model.id): the attribute expired with the commit and is
\* reloaded from the row
ReturnId(p) ==
    /\ pc[p] = "return_id"
    /\ LET l == loc[p]
       IN IF QueryById(l.doc_model.id) = NoDoc
          THEN Raise(p, l, "ObjectDeletedError")
          ELSE Return(p, l, RetId(l.doc_model.id))
    /\ UNCHANGED <<docs, index, collection, files, started, upserted, sessionVars, chunkVars>>

\* upload_document's exception handler: the saved file is removed and the
\* error is reported to the client
Cleanup(p) ==
    /\ pc[p] = "cleanup"
    /\ files' = files \ {loc[p].file_path}
    /\ Return(p, loc[p], RetRaise(loc[p].error))
    /\ UNCHANGED <<docs, index, collection, started, upserted, sessionVars, chunkVars>>

----------------------------------------------------------------------------
(* Deletion and full reset *)

\* the columns of table "documents"
Columns == {"id", "filename", "source_type", "source_url", "document_type",
            "content_hash", "vector_ids", "created_at", "updated_at"}

\* hasattr(doc, name) for a row of the table: its attributes are the columns
HasAttr(name) == name \in Columns

\* the files the handler removes for the row doc: those of file-based rows
\* that carry a filepath naming an existing file
FilesToRemove(doc) ==
    IF doc.source_type = "file" /\ HasAttr("filepath")
    THEN {doc.filepath} \cap files
    ELSE {}

\* delete_document: the lookup of the row and the test of its vector_ids
DeleteLookup(p, doc_id) ==
    /\ Begin(p)
    /\ LET doc_model == QueryById(doc_id)
           l == [NoLoc EXCEPT !.op = "delete", !.doc_model = View(doc_model)]
       IN IF doc_model = NoDoc
          THEN Return(p, l, RetBool(FALSE))
          ELSE Goto(p, l, IF Truthy(doc_model.vector_ids) THEN "delete_vectors"
                                                          ELSE "delete_record")
    /\ UNCHANGED <<docs, index, collection, files, upserted, sessionVars, chunkVars>>

\* qdrant_client.delete(points_selector=doc_model.vector_ids); an error of the
\* index is caught by the handler, which returns False
DeleteVectors(p) ==
    /\ pc[p] = "delete_vectors"
    /\ \E available \in BOOLEAN :
          IF available /\ collection
          THEN /\ index' = PointsAfterDelete(loc[p].doc_model.vector_ids)
               /\ Goto(p, loc[p], "delete_record")
          ELSE /\ Return(p, loc[p], RetBool(FALSE))
               /\ UNCHANGED index
    /\ UNCHANGED <<docs, collection, files, started, upserted, sessionVars, chunkVars>>

\* removal of the stored file, then db.delete(doc_model); db.commit().  A
\* DELETE that matches no row only warns.
DeleteRecord(p) ==
    /\ pc[p] = "delete_record"
    /\ files' = files \ FilesToRemove(loc[p].doc_model)
    /\ docs' = {d \in docs : d.id # loc[p].doc_model.id}
    /\ Return(p, loc[p], RetBool(TRUE))
    /\ UNCHANGED <<index, collection, started, upserted, sessionVars, chunkVars>>

\* clear_all_documents: all rows are read, the collection is dropped and
\* ensured again; an error of the index is logged (kept in error) and the
\* reset goes on
ClearIndex(p) ==
    /\ Begin(p)
    /\ \E outcome \in {"recreated", "delete_failed", "ensure_failed"} :
          /\ index' = IF outcome = "delete_failed" THEN index ELSE {}
          /\ collection' = CASE outcome = "recreated"     -> TRUE
                             [] outcome = "delete_failed" -> collection
                             [] outcome = "ensure_failed" -> FALSE
          /\ Goto(p, [NoLoc EXCEPT !.op = "clear_all",
                                   !.all_docs = {View(d) : d \in docs},
                                   !.error = IF outcome = "recreated" THEN "" ELSE outcome],
                  "clear_records")
    /\ UNCHANGED <<docs, files, upserted, sessionVars, chunkVars>>

\* variant: only the rows read at the start of the reset are deleted
ClearRecordsRead(p) ==
    /\ pc[p] = "clear_records"
    /\ files' = files \ UNION {FilesToRemove(doc) : doc \in loc[p].all_docs}
    /\ docs' = {d \in docs : \A doc \in loc[p].all_docs : doc.id # d.id}
    /\ Return(p, loc[p], RetBool(TRUE))
    /\ UNCHANGED <<index, collection, started, upserted, sessionVars, chunkVars>>

\* removal of the stored files of all_docs, then
\* db.query(DocumentModel).delete(); db.commit()
ClearRecords(p) ==
    /\ pc[p] = "clear_records"
    /\ files' = files \ UNION {FilesToRemove(doc) : doc \in loc[p].all_docs}
    /\ docs' = {}
    /\ Return(p, loc[p], RetBool(TRUE))
    /\ UNCHANGED <<index, collection, started, upserted, sessionVars, chunkVars>>

\* get_retriever, get_vector_store: the collection is ensured before the
\* vector store is built on it
GetRetriever ==
    /\ collection' = EnsureCollectionExists(Collection).exists
    /\ index' = EnsureCollectionExists(Collection).points
    /\ UNCHANGED <<docs, files, pc, loc, ret, started, upserted, sessionVars, chunkVars>>

----------------------------------------------------------------------------
(* Session cache: SessionMemoryManager and the stateful side of RAGChain *)

\* a ConversationBufferWindowMemory with an empty chat_memory
NewMemory == [k |-> max_history_length, messages |-> <<>>]

NoSloc == [session_id |-> "", question |-> "", current_time |-> 0, expired_sessions |-> {}]

\* the absent session id of a request (Optional[str] = None)
None == "<None>"

\* outcome of the last operation: the response of ask, the list of
\* get_session_history, the flag of clear_session, or the exception that left ask
NoSret == [kind |-> "none", history |-> <<>>, ok |-> FALSE, stateful |-> FALSE,
           question |-> "", answer |-> "", source_documents |-> <<>>,
           error |-> FALSE, raised |-> ""]

\* the exceptions the chains can raise: the condensing model, the retriever
\* and the answering model are remote services
StatelessErrors == {"retrieval failed", "generation failed"}
StatefulErrors  == {"condensation failed"} \cup StatelessErrors

\* the source documents a chain can return: what the retriever found in the index
Retrieved == {<<>>} \cup {<<pt>> : pt \in index}

\* the dictionary ask returns for an answered question
Response(question, answer, source_documents, stateful) ==
    [NoSret EXCEPT !.kind = "answer", !.ok = TRUE, !.stateful = stateful,
                   !.question = question, !.answer = answer,
                   !.source_documents = source_documents]

\* an exception leaves ask
Raised(e) == [NoSret EXCEPT !.kind = "raised", !.raised = e]

\* variant: the handler hands the exception on
ExceptReraise(question, e) == Raised(e)

\* the except clause of ask_stateful
Except(question, e) ==
    [NoSret EXCEPT !.kind = "answer", !.ok = FALSE, !.stateful = TRUE,
                   !.question = question,
                   !.answer = "Error processing question: " \o e,
                   !.source_documents = <<>>, !.error = TRUE]

\* variant: the age is computed the wrong way round
ExpiredReversed(last_access, current_time) == last_access - current_time > ttl_seconds

\* variant: an entry already expires when its age equals the TTL
ExpiredAtTtl(last_access, current_time) == current_time - last_access >= ttl_seconds

\* the test of _cleanup_expired_sessions on one entry
Expired(last_access, current_time) == current_time - last_access > ttl_seconds

\* the ids _cleanup_expired_sessions collects
ExpiredSessions(current_time) ==
    {s \in DOMAIN sessions : Expired(sessions[s].last_access, current_time)}

\* the session map after _cleanup_expired_sessions deleted the collected ids
CleanupExpiredSessions(current_time) ==
    [s \in (DOMAIN sessions) \ ExpiredSessions(current_time) |-> sessions[s]]

\* the session map after get_memory(session_id) at current_time
GetMemory(session_id, current_time) ==
    LET kept == CleanupExpiredSessions(current_time)
    IN [s \in (DOMAIN kept) \cup {session_id} |->
          IF s # session_id THEN kept[s]
          ELSE IF s \notin DOMAIN kept
               THEN [memory |-> NewMemory, last_access |-> current_time]
               ELSE [kept[s] EXCEPT !.last_access = current_time]]

HumanMessage(content) == [type |-> "human", content |-> content]
AIMessage(content)    == [type |-> "ai", content |-> content]

\* the role-tagged list get_session_history builds from the messages
HistoryOf(messages) ==
    LET known == SelectSeq(messages, LAMBDA m : m.type \in {"human", "ai"})
    IN [i \in 1..Len(known) |->
          [role |-> IF known[i].type = "human" THEN "user" ELSE "assistant",
           content |-> known[i].content]]

\* time.time() moves on
Tick ==
    /\ now < MaxTime
    /\ now' = now + 1
    /\ UNCHANGED <<sessions, spc, sloc, sret, ingestVars, threadVars, chunkVars>>

\* ask_stateful up to the construction of the chain: get_memory(session_id)
AskStatefulGetMemory(session_id, question) ==
    /\ spc = "idle"
    /\ sessions' = GetMemory(session_id, now)
    /\ spc' = "invoke"
    /\ sloc' = [session_id |-> session_id, question |-> question, current_time |-> now,
                expired_sessions |-> ExpiredSessions(now)]
    /\ sret' = NoSret
    /\ UNCHANGED <<now, ingestVars, threadVars, chunkVars>>

\* variant: a failing turn has already stored the question
AskStatefulInvokePartial ==
    /\ spc = "invoke"
    /\ \/ /\ Len(sessions[sloc.session_id].memory.messages) < 2 * MaxTurns
          /\ sessions' = [sessions EXCEPT ![sloc.session_id].memory.messages =
                              @ \o <<HumanMessage(sloc.question), AIMessage("answer")>>]
          /\ \E source_documents \in Retrieved :
                sret' = Response(sloc.question, "answer", source_documents, TRUE)
       \/ /\ Len(sessions[sloc.session_id].memory.messages) < 2 * MaxTurns
          /\ sessions' = [sessions EXCEPT ![sloc.session_id].memory.messages =
                              Append(@, HumanMessage(sloc.question))]
          /\ \E e \in StatefulErrors : sret' = Except(sloc.question, e)
    /\ spc' = "idle"
    /\ sloc' = NoSloc
    /\ UNCHANGED <<now, ingestVars, threadVars, chunkVars>>

\* qa_chain.invoke: on success the chain saves the exchange into the memory it
\* was given, on failure ask_stateful returns an answer flagged as an error
AskStatefulInvoke ==
    /\ spc = "invoke"
    /\ \/ /\ Len(sessions[sloc.session_id].memory.messages) < 2 * MaxTurns
          /\ sessions' = [sessions EXCEPT ![sloc.session_id].memory.messages =
                              @ \o <<HumanMessage(sloc.question), AIMessage("answer")>>]
          /\ \E source_documents \in Retrieved :
                sret' = Response(sloc.question, "answer", source_documents, TRUE)
       \/ /\ sessions' = sessions
          /\ \E e \in StatefulErrors : sret' = Except(sloc.question, e)
    /\ spc' = "idle"
    /\ sloc' = NoSloc
    /\ UNCHANGED <<now, ingestVars, threadVars, chunkVars>>

\* variant: the history is read through get_memory
GetSessionHistoryViaGetMemory(session_id) ==
    /\ spc = "idle"
    /\ sessions' = GetMemory(session_id, now)
    /\ sret' = [NoSret EXCEPT !.kind = "history", !.ok = TRUE,
                              !.history = HistoryOf(sessions'[session_id].memory.messages)]
    /\ UNCHANGED <<now, spc, sloc, ingestVars, threadVars, chunkVars>>

\* get_session_history(session_id)
GetSessionHistory(session_id) ==
    /\ spc = "idle"
    /\ sret' = [NoSret EXCEPT !.kind = "history", !.ok = TRUE,
                              !.history = IF session_id \notin DOMAIN sessions THEN <<>>
                                          ELSE HistoryOf(sessions[session_id].memory.messages)]
    /\ UNCHANGED <<sessions, now, spc, sloc, ingestVars, threadVars, chunkVars>>

\* variant: the entry is dropped if present and the call reports success anyway
ClearSessionReportsTrue(session_id) ==
    /\ spc = "idle"
    /\ sessions' = [s \in (DOMAIN sessions) \ {session_id} |-> sessions[s]]
    /\ sret' = [NoSret EXCEPT !.kind = "cleared", !.ok = TRUE]
    /\ UNCHANGED <<now, spc, sloc, ingestVars, threadVars, chunkVars>>

\* clear_session(session_id)
ClearSession(session_id) ==
    /\ spc = "idle"
    /\ IF session_id \in DOMAIN sessions
       THEN /\ sessions' = [s \in (DOMAIN sessions) \ {session_id} |-> sessions[s]]
            /\ sret' = [NoSret EXCEPT !.kind = "cleared", !.ok = TRUE]
       ELSE /\ sessions' = sessions
            /\ sret' = [NoSret EXCEPT !.kind = "cleared", !.ok = FALSE]
    /\ UNCHANGED <<now, spc, sloc, ingestVars, threadVars, chunkVars>>

\* ask_stateless(question): the chain is built without a memory
AskStateless(question) ==
    /\ spc = "idle"
    /\ \/ \E source_documents \in Retrieved :
             sret' = Response(question, "answer", source_documents, FALSE)
       \/ \E e \in StatelessErrors : sret' = Raised(e)
    /\ UNCHANGED <<sessions, now, spc, sloc, ingestVars, threadVars, chunkVars>>

\* variant: every request is taken to carry a session id
SessionIdGivenAlways(session_id) == TRUE

\* truth value of the session_id argument of ask
SessionIdGiven(session_id) == session_id # None /\ session_id # ""

\* ask(question, session_id)
Ask(question, session_id) ==
    IF SessionIdGiven(session_id)
    THEN AskStatefulGetMemory(session_id, question)
    ELSE AskStateless(question)

SessionNext ==
    \/ Tick
    \/ \E session_id \in SessionIds \cup {None, ""}, question \in Questions :
          Ask(question, session_id)
    \/ AskStatefulInvoke
    \/ \E session_id \in SessionIds : GetSessionHistory(session_id)
    \/ \E session_id \in SessionIds : ClearSession(session_id)

----------------------------------------------------------------------------
(* Session cache under threads: the same methods, interleaved at the        *)
(* granularity of the accesses to the dictionary SessionMemoryManager.sessions *)

\* two clients, each with a session id of its own
Threads   == {"t1", "t2"}
SessionOf == [t \in Threads |-> IF t = "t1" THEN "s1" ELSE "s2"]

NoTloc == [session_id |-> "", question |-> "", current_time |-> 0,
           used |-> 0, visited |-> {}, expired_sessions |-> <<>>, memory |-> 0]

\* a ConversationBufferWindowMemory with an empty chat_memory; obj tells the
\* objects apart
NewMemoryObject(obj) == [k |-> max_history_length, messages |-> <<>>, obj |-> obj]

\* the objects some entry or some request still refers to
LiveObjects ==
    {sessions[s].memory.obj : s \in DOMAIN sessions} \cup {tloc[t].memory : t \in Threads}

\* the identity of a newly allocated object
FreshObject == CHOOSE obj \in 1..(Cardinality(LiveObjects) + 1) : obj \notin LiveObjects

TGoto(t, l, next) ==
    /\ tpc'  = [tpc EXCEPT ![t] = next]
    /\ tloc' = [tloc EXCEPT ![t] = l]
    /\ tret' = [tret EXCEPT ![t] = NoSret]

TReturn(t, r) ==
    /\ tpc'  = [tpc EXCEPT ![t] = "idle"]
    /\ tloc' = [tloc EXCEPT ![t] = NoTloc]
    /\ tret' = [tret EXCEPT ![t] = r]

\* ask_stateful, get_memory up to the start of the loop of
\* _cleanup_expired_sessions: the clock is read and the iterator over the
\* dictionary is created, which notes the size of the dictionary
TAskStateful(t, question) ==
    /\ tpc[t] = "idle"
    /\ started < MaxRequests
    /\ started' = started + 1
    /\ TGoto(t, [NoTloc EXCEPT !.session_id = SessionOf[t], !.question = question,
                               !.current_time = now,
                               !.used = Cardinality(DOMAIN sessions)], "scan")
    /\ UNCHANGED <<sessions, now, spc, sloc, sret,
                   docs, index, upserted, collection, files, pc, loc, ret, chunkVars>>

\* one turn of the first loop of _cleanup_expired_sessions: the iterator
\* raises RuntimeError if the dictionary has changed its size, ends the loop
\* when no entry is left, and yields an entry otherwise
TScan(t) ==
    /\ tpc[t] = "scan"
    /\ LET l == tloc[t]
           left == (DOMAIN sessions) \ l.visited
       IN IF Cardinality(DOMAIN sessions) # l.used
          THEN TReturn(t, Except(l.question, "dictionary changed size during iteration"))
          ELSE IF left = {}
               THEN TGoto(t, l, "delete")
               ELSE \E session_id \in left :
                       TGoto(t, [l EXCEPT !.visited = @ \cup {session_id},
                                          !.expired_sessions =
                                              IF Expired(sessions[session_id].last_access,
                                                         l.current_time)
                                              THEN Append(@, session_id) ELSE @],
                             "scan")
    /\ UNCHANGED <<sessions, now, spc, sloc, sret, ingestVars, chunkVars>>

\* one turn of the second loop of _cleanup_expired_sessions: del of a key that
\* is no longer there raises KeyError
TDelete(t) ==
    /\ tpc[t] = "delete"
    /\ LET l == tloc[t]
       IN IF l.expired_sessions = <<>>
          THEN /\ TGoto(t, l, "lookup")
               /\ sessions' = sessions
          ELSE LET session_id == Head(l.expired_sessions)
               IN IF session_id \in DOMAIN sessions
                  THEN /\ sessions' = [s \in (DOMAIN sessions) \ {session_id} |-> sessions[s]]
                       /\ TGoto(t, [l EXCEPT !.expired_sessions = Tail(@)], "delete")
                  ELSE /\ sessions' = sessions
                       /\ TReturn(t, Except(l.question, "KeyError: " \o session_id))
    /\ UNCHANGED <<now, spc, sloc, sret, ingestVars, chunkVars>>

\* get_memory: the entry is created if the id is not in the dictionary and
\* its last_access is refreshed otherwise
TLookup(t) ==
    /\ tpc[t] = "lookup"
    /\ LET l == tloc[t]
       IN sessions' =
             [s \in (DOMAIN sessions) \cup {l.session_id} |->
                IF s # l.session_id THEN sessions[s]
                ELSE IF s \notin DOMAIN sessions
                     THEN [memory |-> NewMemoryObject(FreshObject),
                           last_access |-> l.current_time]
                     ELSE [sessions[s] EXCEPT !.last_access = l.current_time]]
    /\ TGoto(t, tloc[t], "return")
    /\ UNCHANGED <<now, spc, sloc, sret, ingestVars, chunkVars>>

\* get_memory: return self.sessions[session_id]["memory"]
TReturnMemory(t) ==
    /\ tpc[t] = "return"
    /\ LET l == tloc[t]
       IN IF l.session_id \in DOMAIN sessions
          THEN TGoto(t, [l EXCEPT !.memory = sessions[l.session_id].memory.obj], "invoke")
          ELSE TReturn(t, Except(l.question, "KeyError: " \o l.session_id))
    /\ UNCHANGED <<sessions, now, spc, sloc, sret, ingestVars, chunkVars>>

\* qa_chain.invoke: on success the chain saves the exchange into the memory
\* object it was given, whether or not the dictionary still refers to it
TInvoke(t) ==
    /\ tpc[t] = "invoke"
    /\ LET l == tloc[t]
           mapped == /\ l.session_id \in DOMAIN sessions
                     /\ sessions[l.session_id].memory.obj = l.memory
       IN \/ /\ IF mapped
                THEN /\ Len(sessions[l.session_id].memory.messages) < 2 * MaxTurns
                     /\ sessions' = [sessions EXCEPT ![l.session_id].memory.messages =
                                        @ \o <<HumanMessage(l.question), AIMessage("answer")>>]
                ELSE sessions' = sessions
             /\ \E source_documents \in Retrieved :
                   TReturn(t, Response(l.question, "answer", source_documents, TRUE))
          \/ /\ sessions' = sessions
             /\ \E e \in StatefulErrors : TReturn(t, Except(l.question, e))
    /\ UNCHANGED <<now, spc, sloc, sret, ingestVars, chunkVars>>

\* clear_session: the membership test
TClearSession(t) ==
    /\ tpc[t] = "idle"
    /\ started < MaxRequests
    /\ started' = started + 1
    /\ IF SessionOf[t] \in DOMAIN sessions
       THEN TGoto(t, [NoTloc EXCEPT !.session_id = SessionOf[t]], "clear")
       ELSE TReturn(t, [NoSret EXCEPT !.kind = "cleared", !.ok = FALSE])
    /\ UNCHANGED <<sessions, now, spc, sloc, sret,
                   docs, index, upserted, collection, files, pc, loc, ret, chunkVars>>

\* clear_session: the del statement
TClearDelete(t) ==
    /\ tpc[t] = "clear"
    /\ LET session_id == tloc[t].session_id
       IN IF session_id \in DOMAIN sessions
          THEN /\ sessions' = [s \in (DOMAIN sessions) \ {session_id} |-> sessions[s]]
               /\ TReturn(t, [NoSret EXCEPT !.kind = "cleared", !.ok = TRUE])
          ELSE /\ sessions' = sessions
               /\ TReturn(t, Raised("KeyError: " \o session_id))
    /\ UNCHANGED <<now, spc, sloc, sret, ingestVars, chunkVars>>

ThreadNext ==
    \/ Tick
    \/ \E t \in Threads :
          \/ TAskStateful(t, "q1")
          \/ TScan(t)
          \/ TDelete(t)
          \/ TLookup(t)
          \/ TReturnMemory(t)
          \/ TInvoke(t)
          \/ TClearSession(t)
          \/ TClearDelete(t)

----------------------------------------------------------------------------
(* Chunking engine: DocumentProcessor._chunk_document.  A text is the       *)
(* sequence of its characters.                                              *)

Whitespace == {" ", "\n"}
Digits     == {"0", "1", "2", "3", "4", "5", "6", "7", "8", "9"}

\* str.lower on the letters, for re.IGNORECASE
LowerOf == [A |-> "a", B |-> "b", C |-> "c", D |-> "d", E |-> "e", F |-> "f", G |-> "g", H |-> "h", I |-> "i", J |-> "j", K |-> "k", L |-> "l", M |-> "m", N |-> "n", O |-> "o", P |-> "p", Q |-> "q", R |-> "r", S |-> "s", T |-> "t", U |-> "u", V |-> "v", W |-> "w", X |-> "x", Y |-> "y", Z |-> "z"]
Lower(c) == IF c \in DOMAIN LowerOf THEN LowerOf[c] ELSE c

\* text[i..j], empty when j < i
Slice(text, i, j) == SubSeq(text, i, j)

\* text[i..] begins with prefix
StartsWithAt(text, i, prefix) ==
    /\ i + Len(prefix) - 1 <= Len(text)
    /\ \A k \in 1..Len(prefix) : text[i + k - 1] = prefix[k]

\* str.startswith
StartsWith(text, prefix) == StartsWithAt(text, 1, prefix)

\* text[i..] begins with word, letter case ignored
WordAt(text, i, word) ==
    /\ i + Len(word) - 1 <= Len(text)
    /\ \A k \in 1..Len(word) : Lower(text[i + k - 1]) = word[k]

\* the first position at or after i that holds no character of class, Len + 1
\* if none
Skip(text, i, class) ==
    LET stops == {j \in i..Len(text) : text[j] \notin class}
    IN IF stops = {} THEN Len(text) + 1
       ELSE CHOOSE j \in stops : \A k \in stops : j <= k

\* \s*\d*\s*[:.] matches at position j of text; neither class holds ':' or
\* '.', so the longest runs decide
NumberedPrefixTail(text, j) ==
    LET c == Skip(text, Skip(text, Skip(text, j, Whitespace), Digits), Whitespace)
    IN c <= Len(text) /\ text[c] \in {":", "."}

\* structural_patterns: the word of each pattern, and whether \s*\d*\s*[:.]
\* follows it
structural_patterns ==
    << [word |-> <<"f", "a", "q">>, tail |-> FALSE],
       [word |-> <<"f", "r", "e", "q", "u", "e", "n", "t", "l", "y", " ", "a", "s", "k", "e", "d", " ", "q", "u", "e", "s", "t", "i", "o", "n", "s">>,
        tail |-> FALSE],
       [word |-> <<"q">>, tail |-> TRUE],
       [word |-> <<"q", "u", "e", "s", "t", "i", "o", "n">>, tail |-> TRUE],
       [word |-> <<"a">>, tail |-> TRUE],
       [word |-> <<"a", "n", "s", "w", "e", "r">>, tail |-> TRUE] >>

\* re.search(pattern, content, re.IGNORECASE)
Search(pattern, content) ==
    \E i \in 1..Len(content) :
       /\ WordAt(content, i, pattern.word)
       /\ pattern.tail => NumberedPrefixTail(content, i + Len(pattern.word))

\* content.count('?')
QuestionMarks(content) == Cardinality({i \in 1..Len(content) : content[i] = "?"})

\* the last position of the line that position i lies on
LineEnd(text, i) ==
    LET breaks == {j \in i..Len(text) : text[j] = "\n"}
    IN IF breaks = {} THEN Len(text)
       ELSE (CHOOSE j \in breaks : \A k \in breaks : j <= k) - 1

\* ^##\s*.*\? matched at s (re.MULTILINE): the position of the question mark
\* that ends the match, 0 if there is no match at s
HeaderMatchEnd(text, s) ==
    IF ~( /\ s = 1 \/ text[s - 1] = "\n"
          /\ StartsWithAt(text, s, <<"#", "#">>) )
    THEN 0
    ELSE LET j == Skip(text, s + 2, Whitespace)
             marks == {q \in j..LineEnd(text, j) : text[q] = "?"}
         IN IF marks = {} THEN 0
            ELSE CHOOSE q \in marks : \A k \in marks : k <= q

\* len(re.findall(r'^##\s*.*\?', text[i..], re.MULTILINE))
RECURSIVE QuestionHeadersFrom(_, _)
QuestionHeadersFrom(text, i) ==
    LET starts == {s \in i..Len(text) : HeaderMatchEnd(text, s) # 0}
    IN IF starts = {} THEN 0
       ELSE LET s == CHOOSE s \in starts : \A k \in starts : s <= k
            IN 1 + QuestionHeadersFrom(text, HeaderMatchEnd(text, s) + 1)

\* \?\s*\n+[^#] matched at q: the positions the match can end at
AnswerEnds(text, q) ==
    IF text[q] # "?" THEN {}
    ELSE {p \in (q + 2)..Len(text) :
             /\ \A k \in (q + 1)..(p - 1) : text[k] \in Whitespace
             /\ text[p - 1] = "\n"
             /\ text[p] # "#"}

\* the question marks of text after which \s*\n+[^#] matches
AnsweredMarks(text) == {q \in 1..Len(text) : AnswerEnds(text, q) # {}}

\* ##.*\?\s*\n+[^#] matched at s (re.DOTALL): the position the greedy match
\* ends at, 0 if there is no match at s; marks is AnsweredMarks(text)
QaMatchEnd(text, s, marks) ==
    IF ~StartsWithAt(text, s, <<"#", "#">>) \/ \A q \in marks : q < s + 2 THEN 0
    ELSE LET q    == CHOOSE q \in marks : \A k \in marks : k <= q
             ends == AnswerEnds(text, q)
         IN CHOOSE p \in ends : \A k \in ends : k <= p

\* len(re.findall(r'##.*\?\s*\n+[^#]', text[i..], re.DOTALL))
RECURSIVE QaPatternMatchesFrom(_, _)
QaPatternMatchesFrom(text, i) ==
    LET marks  == AnsweredMarks(text)
        starts == {s \in i..Len(text) : QaMatchEnd(text, s, marks) # 0}
    IN IF starts = {} THEN 0
       ELSE LET s == CHOOSE s \in starts : \A k \in starts : s <= k
            IN 1 + QaPatternMatchesFrom(text, QaMatchEnd(text, s, marks) + 1)

\* the score _is_faq_content adds up
Score(content) ==
    LET question_headers   == QuestionHeadersFrom(content, 1)
        question_marks     == QuestionMarks(content)
        qa_pattern_matches == QaPatternMatchesFrom(content, 1)
    IN   3 * Cardinality({n \in 1..Len(structural_patterns) :
                             Search(structural_patterns[n], content)})
       + (IF question_headers >= 2 THEN question_headers ELSE 0)
       + (IF question_marks >= 3 THEN 1 ELSE 0)
       + (IF qa_pattern_matches >= 2 THEN qa_pattern_matches * 2 ELSE 0)

\* _is_faq_content
IsFaqContent(content) == Score(content) >= 3

\* variant: the budget of a section is the plain chunk size
MaxFaqChunkSizePlain == chunk_size

\* config.ingestion.chunk_size * 2
MaxFaqChunkSize == chunk_size * 2

\* the positions at which re.split(r'\n(?=##\s+)', content) cuts
SectionBreaks(content) ==
    {i \in 1..Len(content) :
        /\ content[i] = "\n"
        /\ StartsWithAt(content, i + 1, <<"#", "#">>)
        /\ i + 3 <= Len(content)
        /\ content[i + 3] \in Whitespace}

\* the pieces of text[from..] between the cut positions, which are left out
RECURSIVE SplitAt(_, _, _)
SplitAt(text, from, breaks) ==
    LET later == {i \in breaks : i >= from}
    IN IF later = {} THEN <<Slice(text, from, Len(text))>>
       ELSE LET i == CHOOSE i \in later : \A k \in later : i <= k
            IN <<Slice(text, from, i - 1)>> \o SplitAt(text, i + 1, breaks)

\* str.strip
Strip(text) ==
    LET solid == {i \in 1..Len(text) : text[i] \notin Whitespace}
    IN IF solid = {} THEN <<>>
       ELSE Slice(text, CHOOSE i \in solid : \A k \in solid : i <= k,
                        CHOOSE i \in solid : \A k \in solid : k <= i)

\* [line.strip() for line in section.split('\n') if line.strip()]
StrippedLines(section) ==
    LET pieces == SplitAt(section, 1, {i \in 1..Len(section) : section[i] = "\n"})
        stripped == [n \in 1..Len(pieces) |-> Strip(pieces[n])]
    IN SelectSeq(stripped, LAMBDA line : line # <<>>)

\* re.split(r'\n\n+', text[from..])
RECURSIVE SplitParagraphs(_, _)
SplitParagraphs(text, from) ==
    LET runs == {i \in from..(Len(text) - 1) : text[i] = "\n" /\ text[i + 1] = "\n"}
    IN IF runs = {} THEN <<Slice(text, from, Len(text))>>
       ELSE LET i    == CHOOSE i \in runs : \A k \in runs : i <= k
                rest == {j \in i..Len(text) : text[j] # "\n"}
                j    == IF rest = {} THEN Len(text) + 1
                        ELSE CHOOSE j \in rest : \A k \in rest : j <= k
            IN <<Slice(text, from, i - 1)>> \o SplitParagraphs(text, j)

\* chunk_with_context: the heading line is put in front of a sub-chunk unless
\* the sub-chunk begins with '##'
ChunkWithContext(question_line, current_chunk) ==
    IF question_line # <<>> /\ ~StartsWith(current_chunk, <<"#", "#">>)
    THEN question_line \o <<"\n", "\n">> \o current_chunk
    ELSE current_chunk

\* the loop over the paragraphs of an oversized section and the append after it
RECURSIVE PackParagraphs(_, _, _, _)
PackParagraphs(paragraphs, current_chunk, question_line, out) ==
    IF paragraphs = <<>>
    THEN IF current_chunk # <<>>
         THEN Append(out, ChunkWithContext(question_line, current_chunk))
         ELSE out
    ELSE LET paragraph  == Head(paragraphs)
             test_chunk == current_chunk
                              \o (IF current_chunk # <<>> THEN <<"\n", "\n">> ELSE <<>>)
                              \o paragraph
         IN IF Len(test_chunk) <= MaxFaqChunkSize
            THEN PackParagraphs(Tail(paragraphs), test_chunk, question_line, out)
            ELSE PackParagraphs(Tail(paragraphs), paragraph, question_line,
                                IF current_chunk # <<>>
                                THEN Append(out, ChunkWithContext(question_line, current_chunk))
                                ELSE out)

\* the body of the loop of _split_faq_content for one piece of the split
SplitSection(piece) ==
    LET section == Strip(piece)
        lines   == StrippedLines(section)
    IN IF section = <<>> \/ Len(lines) < 2 THEN <<>>
       ELSE IF Len(section) > MaxFaqChunkSize
            THEN PackParagraphs(SplitParagraphs(section, 1), <<>>,
                                IF StartsWith(lines[1], <<"#", "#">>) THEN lines[1] ELSE <<>>,
                                <<>>)
            ELSE <<section>>

RECURSIVE Flatten(_)
Flatten(lists) == IF lists = <<>> THEN <<>> ELSE Head(lists) \o Flatten(Tail(lists))

\* _split_faq_content: the page_content of the chunks, in order
SplitFaqContent(content) ==
    LET sections == SplitAt(content, 1, SectionBreaks(content))
    IN Flatten([n \in 1..Len(sections) |-> SplitSection(sections[n])])

\* the text blocks documents are made of: a question heading, a word, a
\* question, a long sentence and a tag line
Heading == <<"#", "#", " ", "x", "?">>
Blocks ==
    { Heading,
      <<"x">>,
      <<"x", "?">>,
      <<"x", "x", "x", "x", "x", "x", "a", ".">>,
      <<"#", "#", "x">> }

\* a line break and a blank line
Separators == { <<"\n">>, <<"\n", "\n">> }

NoDocument == [blocks |-> <<>>, seps |-> <<>>]

\* the loaded units of n blocks, with a separator between neighbours
Documents(n) ==
    { [blocks |-> b, seps |-> sp] :
          b \in [1..n -> Blocks], sp \in [1..(n - 1) -> Separators] }

\* blocks[from..to] with the separators between them
RECURSIVE Render(_, _, _)
Render(doc, from, to) ==
    IF from > to THEN <<>>
    ELSE IF from = to THEN doc.blocks[from]
         ELSE doc.blocks[from] \o doc.seps[from] \o Render(doc, from + 1, to)

\* Document.page_content
PageContent(doc) == Render(doc, 1, Len(doc.blocks))

\* _load_document hands one unit to _chunk_document
LoadDocument ==
    /\ cpc = "idle"
    /\ \E n \in 1..MaxBlocks : \E doc \in Documents(n) : document' = doc
    /\ cpc' = "loaded"
    /\ UNCHANGED <<is_faq_document, chunks, ingestVars, sessionVars>>

\* _chunk_document: is_faq_document = self._is_faq_content(full_content)
ClassifyContent ==
    /\ cpc = "loaded"
    /\ is_faq_document' = IsFaqContent(PageContent(document))
    /\ cpc' = "classified"
    /\ UNCHANGED <<document, chunks, ingestVars, sessionVars>>

\* _chunk_document, FAQ branch: chunks.extend(self._split_faq_content(doc))
SplitFaq ==
    /\ cpc = "classified"
    /\ is_faq_document
    /\ chunks' = SplitFaqContent(PageContent(document))
    /\ cpc' = "split_faq"
    /\ UNCHANGED <<document, is_faq_document, ingestVars, sessionVars>>

\* _chunk_document, other branch: the unit goes to the text splitter of the
\* library, whose pieces are not described here
SplitProse ==
    /\ cpc = "classified"
    /\ ~is_faq_document
    /\ chunks' = <<>>
    /\ cpc' = "split_prose"
    /\ UNCHANGED <<document, is_faq_document, ingestVars, sessionVars>>

ChunkNext ==
    \/ LoadDocument
    \/ ClassifyContent
    \/ SplitFaq
    \/ SplitProse

----------------------------------------------------------------------------
(* Ingestion system *)

InitIngest ==
    /\ docs = {}
    /\ index = {}
    /\ upserted = {}
    /\ collection = FALSE
    /\ files = {}
    /\ pc = [p \in Procs |-> "idle"]
    /\ loc = [p \in Procs |-> NoLoc]
    /\ ret = [p \in Procs |-> NoRet]
    /\ started = 0

InitSession ==
    /\ sessions = [s \in {} |-> [memory |-> NewMemory, last_access |-> 0]]
    /\ now = 0
    /\ spc = "idle"
    /\ sloc = NoSloc
    /\ sret = NoSret
    /\ tpc = [t \in Threads |-> "idle"]
    /\ tloc = [t \in Threads |-> NoTloc]
    /\ tret = [t \in Threads |-> NoSret]

InitChunking ==
    /\ document = NoDocument
    /\ cpc = "idle"
    /\ is_faq_document = FALSE
    /\ chunks = <<>>

Init == InitIngest /\ InitSession /\ InitChunking

Next ==
    \E p \in Procs :
       \/ \E content \in FileContents : UploadSave(p, content)
       \/ ProcessUpload(p)
       \/ \E content \in UrlContents : ProcessUrl(p, content)
       \/ AddRecord(p)
       \/ SetSourceUrl(p)
       \/ StoreVectors(p)
       \/ SetVectorIds(p)
       \/ ReturnId(p)
       \/ Cleanup(p)
       \/ \E doc_id \in 1..MaxDocId : DeleteLookup(p, doc_id)
       \/ DeleteVectors(p)
       \/ DeleteRecord(p)
       \/ ClearIndex(p)
       \/ ClearRecords(p)
       \/ GetRetriever

Spec == Init /\ [][Next]_vars

\* ingestion requests only: uploads and URL submissions, run concurrently
IngestNext ==
    \E p \in Procs :
       \/ \E content \in UploadContents : UploadSave(p, content)
       \/ ProcessUpload(p)
       \/ \E content \in UrlContents : ProcessUrl(p, content)
       \/ AddRecord(p)
       \/ SetSourceUrl(p)
       \/ StoreVectors(p)
       \/ SetVectorIds(p)
       \/ ReturnId(p)
       \/ Cleanup(p)

IngestSpec == Init /\ [][IngestNext]_vars

SessionSpec == Init /\ [][SessionNext]_vars

ThreadSpec == Init /\ [][ThreadNext]_vars

ChunkSpec == Init /\ [][ChunkNext]_vars

----------------------------------------------------------------------------
(* Properties *)

IngestOps == {"upload", "add_url"}

\* the keys of the points in the index
IndexKeys == {pt.id : pt \in index}

\* worker p runs the hash-and-lookup part of an ingestion of content c
LookupStep(p, c) ==
    \/ ProcessUrl(p, c)
    \/ (pc[p] = "process" /\ loc[p].content = c /\ ProcessUpload(p))

\* C1: when the content already has a record whose ingestion completed (its
\* vector_ids are set), a further ingestion of the same content returns the id
\* of that record, adds no record and writes no vector.
C1_ReingestReturnsExistingId ==
    [][\A p \in Procs, c \in Contents :
          /\ UploadSave(p, c) => (docs' = docs /\ index' = index)
          /\ \A d \in docs :
                (LookupStep(p, c) /\ d.content_hash = GetHash(c) /\ d.vector_ids # <<>>)
                => /\ pc'[p] = "done"
                   /\ ret'[p] = RetId(d.id)
                   /\ docs' = docs
                   /\ index' = index]_vars

\* a worker has returned from an ingestion that found the completed record
C1_Witness ==
    \E p \in Procs :
       /\ pc[p] = "done"
       /\ loc[p].op \in IngestOps
       /\ loc[p].existing_doc.vector_ids # <<>>
       /\ ret[p] = RetId(loc[p].existing_doc.id)
       /\ \E d \in docs : View(d) = loc[p].existing_doc

\* C2: the metadata store never holds two records with the same content_hash,
\* whatever ingestions, deletions and resets interleave and fail.
C2_UniqueContentHash ==
    \A d1, d2 \in docs : d1.content_hash = d2.content_hash => d1 = d2

\* an ingestion was refused the insertion of a second record for a hash
C2_Witness ==
    \E p \in Procs :
       /\ loc[p].op \in IngestOps
       /\ "IntegrityError" \in {loc[p].error, ret[p].error}
       /\ \E d \in docs : d.content_hash = GetHash(loc[p].content)

\* errors that stand for an unavailable collaborator or an unloadable source
UnavailableErrors == {"ValueError", "EmbeddingError", "IndexWriteError"}

\* C3: two ingestion requests for the same content that met no unavailable
\* collaborator both return a document id, and the same one.
C3_ConcurrentIngestBothSucceed ==
    \A p, q \in Procs :
       ( /\ p # q
         /\ pc[p] = "done" /\ pc[q] = "done"
         /\ loc[p].op \in IngestOps /\ loc[q].op \in IngestOps
         /\ loc[p].content = loc[q].content
         /\ ret[p].error \notin UnavailableErrors
         /\ ret[q].error \notin UnavailableErrors )
       => (ret[p].kind = "id" /\ ret[q].kind = "id" /\ ret[p].id = ret[q].id)

\* the points written for the records of content c
PointsOfContent(c) ==
    {pt \in index : \E d \in docs : d.content_hash = GetHash(c) /\ d.id = pt.document_id}

\* C4: under concurrent ingestion the index holds at most one vector set per
\* content: every point belongs to a record, and the points of the records of
\* one content are no more than the chunks of that content.
C4_NoDuplicateVectorSets ==
    /\ \A pt \in index : \E d \in docs : d.id = pt.document_id
    /\ \A c \in Contents : Cardinality(PointsOfContent(c)) <= NumChunks(c)

\* two requests for one content are over: one wrote the vectors, the other was
\* refused its record
C4_Witness ==
    \E p, q \in Procs :
       /\ p # q
       /\ pc[p] = "done" /\ pc[q] = "done"
       /\ loc[p].op \in IngestOps /\ loc[q].op \in IngestOps
       /\ loc[p].content = loc[q].content
       /\ ret[p].kind = "id" /\ loc[p].vector_ids # <<>>
       /\ ret[q] = RetRaise("IntegrityError")
       /\ Cardinality(PointsOfContent(loc[p].content)) = NumChunks(loc[p].content)

\* C5: delete_document on an existing record whose row is as the handler read
\* it: the lookup changes no store, the index delete removes exactly the keys
\* of the record's vector_ids, the row delete removes exactly that record and
\* returns true; all other records and points stay as they are.
C5_DeleteRemovesExactly ==
    [][\A p \in Procs, d \in docs :
          /\ DeleteLookup(p, d.id)
             => /\ UNCHANGED <<docs, index, files>>
                /\ loc'[p].doc_model = View(d)
                /\ pc'[p] = IF d.vector_ids # <<>> THEN "delete_vectors" ELSE "delete_record"
          /\ (loc[p].op = "delete" /\ loc[p].doc_model = View(d))
             => /\ (DeleteVectors(p) /\ pc'[p] = "delete_record")
                   => /\ index' = {pt \in index : pt.id \notin Range(d.vector_ids)}
                      /\ docs' = docs
                /\ DeleteRecord(p)
                   => /\ docs' = docs \ {d}
                      /\ index' = index
                      /\ IndexKeys \cap Range(d.vector_ids) = {}
                      /\ ret'[p] = RetBool(TRUE)]_vars

\* a deletion of a record with vectors returned true, its keys are gone, and
\* another record is still there with all of its vectors
C5_Witness ==
    \E p \in Procs :
       /\ pc[p] = "done"
       /\ loc[p].op = "delete"
       /\ ret[p] = RetBool(TRUE)
       /\ loc[p].doc_model.vector_ids # <<>>
       /\ IndexKeys \cap Range(loc[p].doc_model.vector_ids) = {}
       /\ \A d \in docs : d.id # loc[p].doc_model.id
       /\ \E d \in docs : d.vector_ids # <<>> /\ Range(d.vector_ids) \subseteq IndexKeys

\* C6: delete_document of an id that has no record returns false, raises
\* nothing and changes neither the metadata store, the index nor the files.
C6_DeleteMissingIsNoOp ==
    [][\A p \in Procs, doc_id \in 1..MaxDocId :
          (DeleteLookup(p, doc_id) /\ \A d \in docs : d.id # doc_id)
          => /\ pc'[p] = "done"
             /\ ret'[p] = RetBool(FALSE)
             /\ UNCHANGED <<docs, index, collection, files>>]_vars

\* a deletion found no row and returned false while other records exist
C6_Witness ==
    \E p \in Procs :
       /\ pc[p] = "done"
       /\ loc[p].op = "delete"
       /\ loc[p].doc_model = View(NoDoc)
       /\ ret[p] = RetBool(FALSE)
       /\ docs # {}
       /\ index # {}

\* worker p takes a step of delete_document
DeleteStep(p) == DeleteVectors(p) \/ DeleteRecord(p)

C8_FileRemovedWithRecord ==
    [][\A p \in Procs, d \in docs :
          (d.source_type = "file" /\ d \notin docs' /\ (DeleteRecord(p) \/ ClearRecords(p)))
          => d.filename \notin files']_vars

\* the stateful request of this step calls get_memory(session_id)
Accesses(session_id) ==
    spc = "idle" /\ spc' = "invoke" /\ sloc'.session_id = session_id

\* C9: a stateful access to a session whose last access is more than
\* ttl_seconds ago replaces the entry by one with empty history and
\* last_access = now.
C9_ExpiredSessionStartsEmpty ==
    [][\A sid \in SessionIds :
          ( /\ Accesses(sid)
            /\ sid \in DOMAIN sessions
            /\ now - sessions[sid].last_access > ttl_seconds )
          => /\ sid \in DOMAIN sessions'
             /\ sessions'[sid].memory.messages = <<>>
             /\ sessions'[sid].last_access = now]_vars

\* get_memory found the accessed session expired and returned a new entry
C9_Witness ==
    /\ spc = "invoke"
    /\ sloc.session_id \in sloc.expired_sessions
    /\ sessions[sloc.session_id].memory.messages = <<>>
    /\ sessions[sloc.session_id].last_access = now

\* C10: a stateful access at time now evicts exactly the sessions with
\* now - last_access > ttl_seconds (the accessed one is created anew); every
\* other session keeps its history, and keeps its last_access unless it is the
\* accessed session, whose last_access becomes now.
C10_EvictsAllAndOnlyExpired ==
    [][\A sid \in SessionIds :
          Accesses(sid)
          => /\ DOMAIN sessions' \subseteq (DOMAIN sessions) \cup {sid}
             /\ \A s \in DOMAIN sessions :
                   IF now - sessions[s].last_access > ttl_seconds
                   THEN IF s = sid
                        THEN sessions'[s].memory.messages = <<>>
                        ELSE s \notin DOMAIN sessions'
                   ELSE /\ s \in DOMAIN sessions'
                        /\ sessions'[s].memory = sessions[s].memory
                        /\ sessions'[s].last_access =
                              IF s = sid THEN now ELSE sessions[s].last_access]_vars

\* an access evicted an expired session while another session, whose age is
\* exactly ttl_seconds, kept its history
C10_Witness ==
    /\ spc = "invoke"
    /\ sloc.expired_sessions # {}
    /\ now = sloc.current_time
    /\ \E s \in DOMAIN sessions :
          /\ s # sloc.session_id
          /\ now - sessions[s].last_access = ttl_seconds
          /\ sessions[s].memory.messages # <<>>

\* C11: every stored history, and every list get_session_history returns,
\* holds at most max_history_length exchanges (2 * max_history_length messages).
C11_HistoryBounded ==
    /\ \A s \in DOMAIN sessions :
          Len(sessions[s].memory.messages) <= 2 * max_history_length
    /\ sret.kind = "history" => Len(sret.history) <= 2 * max_history_length

\* C12: clear_session(id) returns true and removes exactly the entry of id when
\* it is present, returns false when it is absent, and leaves the history and
\* last_access of every other session as they were.
C12_ClearSessionRemovesExactly ==
    [][\A sid \in SessionIds :
          ClearSession(sid)
          => /\ sret'.kind = "cleared"
             /\ sret'.ok = (sid \in DOMAIN sessions)
             /\ DOMAIN sessions' = (DOMAIN sessions) \ {sid}
             /\ \A s \in DOMAIN sessions' : sessions'[s] = sessions[s]]_vars

\* clear_session removed an entry and another session kept its history
C12_Witness ==
    /\ sret.kind = "cleared"
    /\ sret.ok
    /\ \E s \in DOMAIN sessions : sessions[s].memory.messages # <<>>

\* what every step of ask does, whichever its arguments (it follows from Ask)
AskStep ==
    /\ spc = "idle"
    /\ now' = now
    /\ sret'.kind \in {"none", "answer", "raised"}

\* C13: ask without a session id (None or the empty string) answers on the
\* stateless path and leaves the session map exactly as it was; ask with a
\* session id enters the stateful path and calls get_memory for that id.
C13_NoSessionIdIsStateless ==
    [][AskStep =>
         \A question \in Questions, sid \in SessionIds \cup {None, ""} :
            ( /\ (spc' = "invoke") = SessionIdGiven(sid)
              /\ Ask(question, sid) )
            => IF sid \in {None, ""}
               THEN /\ sessions' = sessions
                    /\ spc' = "idle"
                    /\ sret'.kind \in {"answer", "raised"}
                    /\ ~sret'.stateful
               ELSE Accesses(sid)]_vars

\* a stateless question was answered while a session with history existed
C13_Witness ==
    /\ sret.kind = "answer"
    /\ sret.ok
    /\ ~sret.stateful
    /\ \E s \in DOMAIN sessions : sessions[s].memory.messages # <<>>

\* the stateful request in flight returns in this step
StatefulReturns == spc = "invoke" /\ spc' = "idle"

\* C14: a stateful ask never raises: it returns a response, and when the turn
\* failed the response has the error flag set, no source documents and an
\* error text as its answer.
C14_StatefulNeverRaises ==
    [][StatefulReturns
          => /\ sret'.kind = "answer"
             /\ sret'.stateful
             /\ \/ sret'.ok /\ ~sret'.error
                \/ /\ ~sret'.ok
                   /\ sret'.error
                   /\ sret'.source_documents = <<>>
                   /\ \E e \in StatefulErrors :
                         sret'.answer = "Error processing question: " \o e]_vars

\* a stateful turn failed and returned the flagged response
C14_Witness ==
    /\ sret.kind = "answer"
    /\ sret.stateful
    /\ sret.error
    /\ sret.answer = "Error processing question: condensation failed"

\* C15: a stateful turn that fails changes no stored history: the failing
\* chain leaves the whole session map as get_memory left it, and get_memory
\* keeps the messages of the addressed session as long as it has not expired.
C15_FailedTurnKeepsHistory ==
    [][/\ (StatefulReturns /\ sret'.error) => sessions' = sessions
       /\ \A sid \in SessionIds :
             ( /\ Accesses(sid)
               /\ sid \in DOMAIN sessions
               /\ ~(now - sessions[sid].last_access > ttl_seconds) )
             => sessions'[sid].memory = sessions[sid].memory]_vars

\* the turn asking "q2" failed on the only session, which still holds exactly
\* the exchange of its earlier turn
C15_Witness ==
    /\ sret.kind = "answer"
    /\ sret.error
    /\ sret.question = "q2"
    /\ DOMAIN sessions = {"s1"}
    /\ sessions["s1"].memory.messages = <<HumanMessage("q1"), AIMessage("answer")>>

\* thread t takes this step
Steps(t) == tpc'[t] # tpc[t] \/ tloc'[t] # tloc[t]

\* the errors of the dictionary itself
CacheErrors ==
    {"dictionary changed size during iteration"} \cup {"KeyError: " \o s : s \in SessionIds}

\* C16: when threads serve requests for different session ids, no step makes
\* the session cache raise an error, and no step of one request removes the
\* entry of the other session unless that entry has expired.
C16_InterleavingSafe ==
    [][\A t \in Threads :
          /\ tret'[t].kind # "raised"
          /\ tret'[t].error
                => \A e \in CacheErrors :
                      tret'[t].answer # "Error processing question: " \o e
          /\ Steps(t)
                => \A s \in (DOMAIN sessions) \ (DOMAIN sessions') :
                      \/ s = SessionOf[t]
                      \/ Expired(sessions[s].last_access, now)]_vars

\* a block that is a markdown heading of level two
IsHeading(block) == StartsWith(block, <<"#", "#", " ">>)

\* the document has been classified
Classified == cpc \in {"classified", "split_faq", "split_prose"}

\* C17: a text of two sections, each a heading '## <question>?' followed by a
\* paragraph, is classified as FAQ content.
C17_TwoSectionsClassifiedFaq ==
    ( /\ Classified
      /\ Len(document.blocks) = 4
      /\ \A i \in {1, 3} : document.blocks[i] = Heading
      /\ \A i \in {2, 4} : ~StartsWith(document.blocks[i], <<"#">>) )
    => is_faq_document

\* C18: a text without heading lines and with fewer than three question marks
\* is classified as prose.
C18_ProseClassifiedProse ==
    ( /\ Classified
      /\ \A i \in 1..Len(document.blocks) : ~StartsWith(document.blocks[i], <<"#">>)
      /\ QuestionMarks(PageContent(document)) < 3 )
    => ~is_faq_document

\* the sections of a document as ranges of blocks: a range ends before the
\* next heading; the first range is the text before the first heading when
\* the document does not begin with one
RECURSIVE SectionRanges(_, _)
SectionRanges(doc, from) ==
    IF from > Len(doc.blocks) THEN <<>>
    ELSE LET later == {i \in (from + 1)..Len(doc.blocks) : IsHeading(doc.blocks[i])}
             to    == IF later = {} THEN Len(doc.blocks)
                      ELSE (CHOOSE i \in later : \A k \in later : i <= k) - 1
         IN <<[from |-> from, to |-> to]>> \o SectionRanges(doc, to + 1)

\* out is made of one group of chunks per section, in order, and the group of
\* every heading section that has content and at most 2 * chunk_size
\* characters is the section itself
RECURSIVE EmittedWhole(_, _, _)
EmittedWhole(doc, ranges, out) ==
    IF ranges = <<>> THEN out = <<>>
    ELSE LET r    == Head(ranges)
             text == Render(doc, r.from, r.to)
         IN IF IsHeading(doc.blocks[r.from]) /\ r.to > r.from /\ Len(text) <= 2 * chunk_size
            THEN /\ out # <<>>
                 /\ Head(out) = text
                 /\ EmittedWhole(doc, Tail(ranges), Tail(out))
            ELSE \E n \in 0..Len(out) :
                    EmittedWhole(doc, Tail(ranges), SubSeq(out, n + 1, Len(out)))

\* C19: on the structured path every '##' section with content whose length
\* is at most 2 * chunk_size comes out as exactly one chunk, which is the
\* heading line together with all of the section's content.
C19_FittingSectionIsOneChunk ==
    cpc = "split_faq" => EmittedWhole(document, SectionRanges(document, 1), chunks)

\* a FAQ document of several sections was split, and a section longer than
\* chunk_size that still fits the doubled budget came out whole
C19_Witness ==
    /\ cpc = "split_faq"
    /\ Len(chunks) >= 2
    /\ \E n \in 1..Len(SectionRanges(document, 1)) :
          LET r    == SectionRanges(document, 1)[n]
              text == Render(document, r.from, r.to)
          IN /\ IsHeading(document.blocks[r.from])
             /\ r.to > r.from
             /\ Len(text) > chunk_size
             /\ Len(text) <= 2 * chunk_size
             /\ \E i \in 1..Len(chunks) : chunks[i] = text

\* the first line of chunk is the line heading
BeginsWithLine(chunk, heading) ==
    /\ StartsWith(chunk, heading)
    /\ Len(chunk) = Len(heading) \/ chunk[Len(heading) + 1] = "\n"

\* out is made of one group of chunks per section, in order: at most one chunk
\* for a section that fits, and for a heading section longer than
\* 2 * chunk_size only chunks that begin with the heading line of the section
RECURSIVE SubChunksHeaded(_, _, _)
SubChunksHeaded(doc, ranges, out) ==
    IF ranges = <<>> THEN out = <<>>
    ELSE LET r    == Head(ranges)
             text == Render(doc, r.from, r.to)
         IN IF Len(text) <= 2 * chunk_size
            THEN \E n \in 0..1 :
                    /\ n <= Len(out)
                    /\ SubChunksHeaded(doc, Tail(ranges), SubSeq(out, n + 1, Len(out)))
            ELSE \E n \in 0..Len(out) :
                    /\ IsHeading(doc.blocks[r.from])
                          => \A i \in 1..n : BeginsWithLine(out[i], doc.blocks[r.from])
                    /\ SubChunksHeaded(doc, Tail(ranges), SubSeq(out, n + 1, Len(out)))

\* C20: on the structured path every sub-chunk of a section that begins with
\* a '##' heading line and is longer than 2 * chunk_size begins with that
\* heading line.
C20_SubChunksBeginWithHeading ==
    cpc = "split_faq" => SubChunksHeaded(document, SectionRanges(document, 1), chunks)

\* the index write of worker p's ingestion fails
IndexWriteFails(p) ==
    pc[p] = "store_vectors" /\ StoreVectors(p) /\ pc'[p] # "set_vector_ids"

\* C21: when the index write of an ingestion fails, the record the ingestion
\* committed stays in the store with empty vector_ids, nothing is written to
\* the index, and the handler ends with the error: an upload goes on to remove
\* its file and then reports the error, a URL submission reports it at once.
C21_IndexFailureLeavesRecord ==
    [][\A p \in Procs :
          /\ IndexWriteFails(p)
             => /\ docs' = docs
                /\ index' = index
                /\ \E d \in docs' : /\ d.id = loc[p].doc_model.id
                                    /\ d.content_hash = GetHash(loc[p].content)
                                    /\ d.vector_ids = <<>>
                /\ IF loc[p].op = "upload"
                   THEN pc'[p] = "cleanup" /\ loc'[p].error = "IndexWriteError"
                   ELSE pc'[p] = "done" /\ ret'[p] = RetRaise("IndexWriteError")
          /\ (pc[p] = "cleanup" /\ Cleanup(p))
             => /\ docs' = docs
                /\ index' = index
                /\ pc'[p] = "done"
                /\ ret'[p] = RetRaise(loc[p].error)]_vars

\* an upload ended with the error of the index write; its record is in the
\* store with empty vector_ids
C21_Witness ==
    \E p \in Procs :
       /\ pc[p] = "done"
       /\ loc[p].op = "upload"
       /\ ret[p] = RetRaise("IndexWriteError")
       /\ \E d \in docs : /\ d.id = loc[p].doc_model.id
                           /\ d.content_hash = GetHash(loc[p].content)
                           /\ d.vector_ids = <<>>

\* C22 as stated: every record in the store has vectors in the index.
C22_EveryRecordHasVectors ==
    \A d \in docs : \E pt \in index : pt.document_id = d.id

\* the rows of docs' whose primary key no row of docs has
NewRows == {d \in docs' : \A e \in docs : e.id # d.id}

\* C22, amended: a record is created with empty vector_ids and before any of
\* its vectors is written; the keys a record lists in vector_ids are those of
\* points in the index that carry its id and the position of the key.
C22_RecordBeforeVectors ==
    [][/\ \A d \in NewRows :
             /\ d.vector_ids = <<>>
             /\ \A pt \in index' : pt.document_id # d.id
       /\ \A d \in docs' : \A i \in 1..Len(d.vector_ids) :
             Point(d.vector_ids[i], d.id, i - 1) \in index']_vars

\* one record owns its vectors while another, just created, has none yet
C22_Witness ==
    /\ \E d \in docs : d.vector_ids # <<>> /\ Range(d.vector_ids) \subseteq IndexKeys
    /\ \E d \in docs, p \in Procs :
          /\ pc[p] = "store_vectors"
          /\ loc[p].doc_model.id = d.id
          /\ d.vector_ids = <<>>
          /\ \A pt \in index : pt.document_id # d.id

\* the errors of loading, of an empty load and of embedding
PreWriteErrors == {"UnicodeDecodeError", "ValueError", "EmbeddingError"}

\* the ingestion of worker p stops with one of the errors E
StopsWith(p, E) ==
    IF loc'[p].op = "upload"
    THEN pc'[p] = "cleanup" /\ loc'[p].error \in E
    ELSE pc'[p] = "done" /\ ret'[p].kind = "raise" /\ ret'[p].error \in E

\* C23: an ingestion of content without a record whose loading fails or
\* yields nothing, or whose embedding fails, stops with that error and has
\* changed neither the store nor the index; content that cannot be loaded
\* never gets a record.
C23_FailureBeforeWritesChangesNothing ==
    [][/\ \A p \in Procs, c \in Contents \cup UnreadableContents :
             ( /\ LookupStep(p, c)
               /\ QueryByHash(GetHash(c)) = NoDoc
               /\ pc'[p] # "add_record" )
             => /\ StopsWith(p, PreWriteErrors)
                /\ docs' = docs
                /\ index' = index
                /\ collection' = collection
       /\ \A d \in docs', c \in UnreadableContents : d.content_hash # GetHash(c)]_vars

\* an upload of unreadable bytes and a URL that yielded nothing both ended
\* with their error; store and index are empty
C23_Witness ==
    /\ \E p \in Procs : /\ pc[p] = "done"
                        /\ loc[p].content \in UnreadableContents
                        /\ ret[p] = RetRaise("UnicodeDecodeError")
    /\ \E p \in Procs : /\ pc[p] = "done"
                        /\ loc[p].content \in UrlContents
                        /\ ret[p] = RetRaise("ValueError")
    /\ docs = {}
    /\ index = {}

\* C24: clear_all goes on to the records whatever the index did, also when
\* the drop or the recreation of the collection failed; it then removes every
\* record, those added since it began included, and returns true.
C24_ClearAllSurvivesIndexFailure ==
    [][\A p \in Procs :
          /\ ClearIndex(p)
             => /\ pc'[p] = "clear_records"
                /\ docs' = docs
                /\ loc'[p].error = "delete_failed"
                   => index' = index /\ collection' = collection
                /\ loc'[p].error = "ensure_failed" => ~collection'
          /\ (pc[p] = "clear_records" /\ ClearRecords(p))
             => /\ docs' = {}
                /\ pc'[p] = "done"
                /\ ret'[p] = RetBool(TRUE)]_vars

\* a reset whose drop of the collection failed returned true: the records
\* are gone, the vectors are still in the index
C24_Witness ==
    \E p \in Procs :
       /\ pc[p] = "done"
       /\ loc[p].op = "clear_all"
       /\ loc[p].error = "delete_failed"
       /\ loc[p].all_docs # {}
       /\ ret[p] = RetBool(TRUE)
       /\ docs = {}
       /\ index # {}

\* the index write of worker p's ingestion succeeds
IndexWriteSucceeds(p) ==
    pc[p] = "store_vectors" /\ StoreVectors(p) /\ pc'[p] = "set_vector_ids"

\* C25: a successful index write for a document of n chunks returns n keys,
\* pairwise distinct and held by nothing before; the index gains exactly one
\* point per chunk, the point of the i-th chunk (counted from 0) under the
\* i-th key returned, tagged with the document's id and chunk_index = i.
C25_UpsertKeysFreshAndOrdered ==
    [][\A p \in Procs :
          IndexWriteSucceeds(p)
          => LET vector_ids == loc'[p].vector_ids
                 n == NumChunks(loc[p].content)
             IN /\ Len(vector_ids) = n
                /\ \A i, j \in 1..n : vector_ids[i] = vector_ids[j] => i = j
                /\ Range(vector_ids) \cap KeysInUse = {}
                /\ index' \ index =
                      {Point(vector_ids[i + 1], loc[p].doc_model.id, i) : i \in 0..(n - 1)}
                /\ Cardinality(index' \ index) = n
                /\ index \subseteq index']_vars

\* two points of one document, with chunk_index 0 and 1, under the two keys
\* the index write returned
C25_Witness ==
    \E p \in Procs :
       /\ pc[p] = "set_vector_ids"
       /\ Len(loc[p].vector_ids) = 2
       /\ loc[p].vector_ids[1] # loc[p].vector_ids[2]
       /\ Point(loc[p].vector_ids[1], loc[p].doc_model.id, 0) \in index
       /\ Point(loc[p].vector_ids[2], loc[p].doc_model.id, 1) \in index

\* C26: ensuring the collection creates it, empty, when it does not exist and
\* changes nothing when it exists; ensuring it twice gives what ensuring it
\* once gives.  Checked on the collection of every reachable state and on
\* the steps of get_retriever.
C26_EnsureCollectionIdempotent ==
    [][/\ EnsureCollectionExists(EnsureCollectionExists(Collection))
            = EnsureCollectionExists(Collection)
       /\ collection => EnsureCollectionExists(Collection) = Collection
       /\ ~collection
             => EnsureCollectionExists(Collection) = [exists |-> TRUE, points |-> {}]
       /\ GetRetriever
             => /\ collection'
                /\ collection => index' = index
                /\ docs' = docs]_vars

\* the collection holds the vectors of two documents: the index write of the
\* second ensured the collection while it held the vectors of the first
C26_Witness ==
    /\ collection
    /\ \E pt1, pt2 \in index : pt1.document_id # pt2.document_id

\* C27: an ingestion whose embedding provider gives vectors of another length
\* than the collection's, and whose index write creates the collection, stops
\* there with a configuration error.
C27_MismatchIsConfigurationError ==
    [][\A p \in Procs, provider \in EmbeddingProviders :
          ( /\ pc[p] = "store_vectors"
            /\ Dimension(provider) # VectorSize
            /\ ~collection
            /\ collection'
            /\ StoreVectorsOf(p, provider) )
          => StopsWith(p, {"ConfigurationError"})]_vars

\* C28: whenever an upload ends with an error, at whatever step the error
\* arose, the file the upload saved is not in the data directory any more.
C28_FailedUploadRemovesFile ==
    [][\A p \in Procs :
          ( /\ loc'[p].op = "upload"
            /\ pc[p] # "done"
            /\ pc'[p] = "done"
            /\ ret'[p].kind = "raise" )
          => /\ loc[p].file_path # ""
             /\ loc[p].file_path \in files
             /\ loc[p].file_path \notin files'
             /\ files' = files \ {loc[p].file_path}]_vars

\* an upload failed at the index write, after its record was committed; its
\* file is gone
C28_Witness ==
    \E p \in Procs :
       /\ pc[p] = "done"
       /\ loc[p].op = "upload"
       /\ ret[p] = RetRaise("IndexWriteError")
       /\ loc[p].doc_model # View(NoDoc)
       /\ loc[p].file_path \notin files

\* C29: once a record's vector_ids holds the keys of an index write, no step
\* changes the vector_ids of the record with that id while it exists
C29_VectorIdsWrittenOnce ==
    [][\A d \in docs : d.vector_ids # <<>> =>
          \A e \in docs' : e.id = d.id => e.vector_ids = d.vector_ids]_vars

\* the step is the get_memory call of a stateful ask
GetMemoryStep == spc = "idle" /\ spc' = "invoke"

\* C30: a step that is not a get_memory call (get_session_history, a stateless
\* ask, clear_session, the chain invocation, an ingestion, deletion or reset
\* step, the passing of time) leaves every session's last_access as it was,
\* creates no session, and removes a session only as the clear_session call
\* for that very id, however long the sessions have been expired
C30_EvictionOnlyInGetMemory ==
    [][~GetMemoryStep =>
          /\ DOMAIN sessions' \subseteq DOMAIN sessions
          /\ \A s \in DOMAIN sessions' :
                sessions'[s].last_access = sessions[s].last_access
          /\ \A s \in (DOMAIN sessions) \ (DOMAIN sessions') :
                /\ ClearSession(s)
                /\ DOMAIN sessions' = (DOMAIN sessions) \ {s}]_vars

\* an expired session is still cached, with its history, after its history was
\* read
C30_Witness ==
    /\ spc = "idle"
    /\ sret.kind = "history"
    /\ sret.history # <<>>
    /\ \E s \in DOMAIN sessions :
          /\ Expired(sessions[s].last_access, now)
          /\ HistoryOf(sessions[s].memory.messages) = sret.history

\* C31: points enter the index only in the index write of an ingestion that has
\* committed its record, tagged with that record's id; a record's vector_ids
\* is set only to keys the index has accepted before; and so, in every state,
\* every key in a record's vector_ids was upserted with payload document_id
\* equal to the record's id.
C31_RecordThenVectorsThenIds ==
    [][ /\ \A pt \in index' \ index :
              \E p \in Procs : /\ pc[p] = "store_vectors"
                               /\ loc[p].doc_model.id = pt.document_id
                               /\ loc[p].doc_model.id # NoDoc.id
        /\ \A e \in docs' \ docs :
              \A i \in 1..Len(e.vector_ids) :
                 \E pt \in upserted : pt.id = e.vector_ids[i] /\ pt.document_id = e.id
        /\ \A d \in docs' :
              \A i \in 1..Len(d.vector_ids) :
                 \E pt \in upserted' : pt.id = d.vector_ids[i] /\ pt.document_id = d.id ]_vars

\* an ingestion completed: its record lists the keys of its points, and the
\* worker returned the record's id
C31_Witness ==
    \E p \in Procs, d \in docs :
       /\ pc[p] = "done"
       /\ ret[p] = RetId(d.id)
       /\ loc[p].vector_ids # <<>>
       /\ d.vector_ids = loc[p].vector_ids
       /\ \A i \in 1..Len(d.vector_ids) : Point(d.vector_ids[i], d.id, i - 1) \in index

\* C32: on the structured path no chunk is longer than 2 * chunk_size; a
\* section that fits the budget is within it by definition, so this bounds
\* the sub-chunks of the oversized sections.
C32_SubChunksWithinBudget ==
    cpc = "split_faq" => \A i \in 1..Len(chunks) : Len(chunks[i]) <= MaxFaqChunkSize

\* C33: delete_document of a record whose vector_ids is empty goes from the
\* lookup straight to the removal of the row, so that no step of it addresses
\* the index, whether the index is reachable or not; it removes the record,
\* leaves index and collection as they are and returns true.
C33_DeleteWithoutVectors ==
    [][\A p \in Procs :
          /\ \A d \in docs :
                (d.vector_ids = <<>> /\ DeleteLookup(p, d.id))
                => /\ pc'[p] = "delete_record"
                   /\ loc'[p].doc_model = View(d)
                   /\ UNCHANGED <<docs, index, collection>>
          /\ (loc[p].op = "delete" /\ pc[p] # "done" /\ loc[p].doc_model.vector_ids = <<>>)
             => /\ pc[p] = "delete_record"
                /\ DeleteRecord(p)
                   => /\ \A d \in docs' : d.id # loc[p].doc_model.id
                      /\ UNCHANGED <<index, collection>>
                      /\ pc'[p] = "done"
                      /\ ret'[p] = RetBool(TRUE)]_vars

\* the record a failed ingestion left behind was deleted with true as the
\* answer, although the collection does not exist in the index
C33_Witness ==
    \E p \in Procs :
       /\ pc[p] = "done"
       /\ loc[p].op = "delete"
       /\ loc[p].doc_model.id # NoDoc.id
       /\ loc[p].doc_model.vector_ids = <<>>
       /\ ret[p] = RetBool(TRUE)
       /\ \A d \in docs : d.id # loc[p].doc_model.id
       /\ ~collection

\* worker p returns from an ingestion in this step
IngestReturns(p) ==
    /\ pc'[p] = "done"
    /\ pc[p] # "done" \/ started' # started
    /\ loc'[p].op \in IngestOps

\* C34: without deletions and resets, an ingestion that returns an id returns
\* the id of a record whose vector_ids is not empty and whose keys are all in
\* the index.
C34_ReturnedIdHasVectors ==
    [][\A p \in Procs :
          (IngestReturns(p) /\ ret'[p].kind = "id")
          => \E d \in docs' : /\ d.id = ret'[p].id
                              /\ d.vector_ids # <<>>
                              /\ Range(d.vector_ids) \subseteq IndexKeys']_vars

\* no handler is under way
Quiescent == \A p \in Procs : Idle(p)

\* C35: whenever no request is under way, every key of a point in the index
\* is listed in the vector_ids of exactly one record.
C35_NoDanglingVectors ==
    Quiescent =>
       \A pt \in index : Cardinality({d \in docs : pt.id \in Range(d.vector_ids)}) = 1

\* C36: get_session_history of a session whose last access is more than
\* ttl_seconds ago returns the empty list.
C36_NoHistoryOfExpiredSession ==
    [][(spc = "idle" /\ sret'.kind = "history") =>
          \A sid \in DOMAIN sessions :
             (Expired(sessions[sid].last_access, now) /\ GetSessionHistory(sid))
             => sret'.history = <<>>]_vars

\* line occurs in text
Occurs(line, text) == \E i \in 1..Len(text) : StartsWithAt(text, i, line)

\* C37: on the structured path every non-blank line of the input unit occurs
\* in at least one of the chunks produced.
C37_NoContentLost ==
    cpc = "split_faq" =>
       \A line \in Range(StrippedLines(PageContent(document))) :
          \E i \in 1..Len(chunks) : Occurs(line, chunks[i])

\* C38: whenever no request is under way, every file in the data directory is
\* the stored file of exactly one file-sourced record.
C38_EveryFileHasOneRecord ==
    Quiescent =>
       \A f \in files :
          Cardinality({d \in docs : d.source_type = "file" /\ d.filename = f}) = 1

\* C39: a URL submission whose URL already has a record returns the id of that
\* record and changes neither the metadata store, the index nor the files,
\* whatever the fetch of the page gave, an empty result included.
C39_LookupBeforeNoContent ==
    [][started' # started =>
          \A p \in Procs, content \in UrlContents, d \in docs :
             (d.content_hash = GetHash(content) /\ ProcessUrl(p, content))
             => /\ pc'[p] = "done"
                /\ ret'[p] = RetId(d.id)
                /\ UNCHANGED <<docs, index, collection, files>>]_vars

\* a URL submission whose page gave no content returned the id of the
\* existing record
C39_Witness ==
    \E p \in Procs :
       /\ pc[p] = "done"
       /\ loc[p].op = "add_url"
       /\ loc[p].documents = "empty"
       /\ loc[p].existing_doc.id # NoDoc.id
       /\ ret[p] = RetId(loc[p].existing_doc.id)

====
